---- MODULE Spec2Model ----
(***************************************************************************)
(* A model of s3_path_wrangler.paths.S3Path.                               *)
(*                                                                         *)
(* A Python str is a sequence of one-character strings.  A path value is   *)
(* the record [parts, is_absolute] of the two fields S3Path.__init__ sets. *)
(* Every operation is a function from its receiver and operand to either   *)
(* a path, None or the exception it raises; the state machine applies the  *)
(* operations to the values a client program can hold.                     *)
(***************************************************************************)
EXTENDS Integers, Sequences, FiniteSets, TLC

VARIABLES path, op, arg, out, result

vars == <<path, op, arg, out, result>>

(***************************************************************************)
(* Bounds of the model.                                                    *)
(***************************************************************************)
\* longest text that follows a (possibly partial) "s3://" head in S3Path(text)
MaxTail == 3
\* longest bucket string given to with_bucket and _validate_bucket, and
\* longest text behind the prefix in a string operand of /; a parts list
\* given to from_parts has at most MaxArg + 1 characters and boundaries
MaxArg == 2
\* longest string operand of / without the prefix
MaxFrag == 3
\* most characters in the parts of a path that with_bucket and / are applied to
MaxRecv == 2

(***************************************************************************)
(* Characters.                                                             *)
(***************************************************************************)
\* the characters texts are made of after their head: a digit that is also a
\* prefix character, the separator, a letter, the hyphen and a blank; the
\* prefix characters "s" and ":" enter through the heads
Alphabet == {"3", "/", "a", "-", " "}

\* str.isspace(): the whitespace characters of the alphabet
Whitespace == {" "}

\* the regex classes [0-9] and [a-zA-Z0-9-] restricted to the alphabet
Digits == {"3"}
DnsChars == {"s", "a", "3", "-"}

\* S3Path._PREFIX = "s3://"
PREFIX == <<"s", "3", ":", "/", "/">>

\* the {,63} repetition bound of DNS_NAME_REGEX
MaxBucketLen == 63

(***************************************************************************)
(* Python str primitives.                                                  *)
(***************************************************************************)
Range(s) == {s[i] : i \in 1..Len(s)}

\* all strings over A of length at most n
Strs(A, n) == UNION {[1..k -> A] : k \in 0..n}

Min(a, b) == IF a < b THEN a ELSE b

\* c * n
Rep(c, n) == [i \in 1..n |-> c]

\* s.startswith(pre)
startswith(s, pre) == Len(s) >= Len(pre) /\ SubSeq(s, 1, Len(pre)) = pre

\* s.lstrip(chars): drops leading characters while they belong to chars
RECURSIVE lstrip(_, _)
lstrip(s, chars) ==
    IF s = <<>> \/ Head(s) \notin chars THEN s ELSE lstrip(Tail(s), chars)

\* s.rstrip(chars)
RECURSIVE rstrip(_, _)
rstrip(s, chars) ==
    IF s = <<>> \/ s[Len(s)] \notin chars THEN s
    ELSE rstrip(SubSeq(s, 1, Len(s) - 1), chars)

\* s.strip(chars)
strip(s, chars) == rstrip(lstrip(s, chars), chars)

\* s.split(sep) for a one-character sep: "" gives [""], "a//b" gives ["a","","b"]
RECURSIVE split(_, _)
split(s, sep) ==
    IF \A i \in 1..Len(s) : s[i] # sep THEN <<s>>
    ELSE LET i == CHOOSE j \in 1..Len(s) :
                      s[j] = sep /\ \A k \in 1..(j - 1) : s[k] # sep
         IN <<SubSeq(s, 1, i - 1)>> \o split(SubSeq(s, i + 1, Len(s)), sep)

\* sep.join(parts)
RECURSIVE join(_, _)
join(sep, parts) ==
    IF parts = <<>> THEN <<>>
    ELSE IF Len(parts) = 1 THEN parts[1]
    ELSE parts[1] \o <<sep>> \o join(sep, Tail(parts))

\* s.isspace()
isspace(s) == s # <<>> /\ \A i \in 1..Len(s) : s[i] \in Whitespace

(***************************************************************************)
(* Values: a path, the absence of one, and the outcome of a call.          *)
(***************************************************************************)
\* the two fields of an S3Path instance
Path(parts, is_absolute) == [is_absolute |-> is_absolute, parts |-> parts]

\* no instance: a constructor raised, or nothing was constructed yet
NoPath == [is_absolute |-> FALSE, parts |-> <<>>]

\* a call returns a path, returns None, or raises one of the exceptions
Return(p) == [kind |-> "path", path |-> p]
ReturnNone == [kind |-> "None", path |-> NoPath]
Raise(e) == [kind |-> e, path |-> NoPath]

\* the operand of a call: nothing, a str, a parts list with a flag, or a path
ArgNone == [flag |-> FALSE, kind |-> "none", parts |-> <<>>, text |-> <<>>]
ArgStr(t) == [flag |-> FALSE, kind |-> "str", parts |-> <<>>, text |-> t]
ArgParts(ps, f) == [flag |-> f, kind |-> "parts", parts |-> ps, text |-> <<>>]
ArgPath(q) == [flag |-> q.is_absolute, kind |-> "path", parts |-> q.parts, text |-> <<>>]

(***************************************************************************)
(* Validation.                                                             *)
(***************************************************************************)
\* (?![0-9]+$) at position 0: one or more digits up to the end of the string
DigitsToEnd(b) == b # <<>> /\ \A i \in 1..Len(b) : b[i] \in Digits

\* re.fullmatch(DNS_NAME_REGEX, bucket): some repetition count k of the class,
\* at most 63, consumes the whole string, with the two lookaheads holding at
\* the start and the lookbehind holding where the repetition ends
DNS_NAME_REGEX(b) ==
    \E k \in 0..Min(MaxBucketLen, Len(b)) :
        /\ ~DigitsToEnd(b)
        /\ ~(b # <<>> /\ b[1] = "-")
        /\ \A i \in 1..k : b[i] \in DnsChars
        /\ ~(k >= 1 /\ b[k] = "-")
        /\ k = Len(b)

\* _is_valid_part without its isspace test
is_valid_part_keeps_blank(part) == part # <<>> /\ "/" \notin Range(part)

\* S3Path._is_valid_part
is_valid_part(part) == part # <<>> /\ ~isspace(part) /\ "/" \notin Range(part)

\* S3Path._validate_parts: TRUE when it returns, FALSE when it raises
validate_parts(parts) ==
    ~(parts = <<>> \/ \E i \in 1..Len(parts) : ~is_valid_part(parts[i]))

\* S3Path._validate_bucket: TRUE when it returns, FALSE when it raises
validate_bucket(bucket) == DNS_NAME_REGEX(bucket)

(***************************************************************************)
(* Operations.                                                             *)
(***************************************************************************)
\* __init__ stripping the slashes on the left only
S3Path_lstrip_only(text) ==
    IF startswith(text, <<"/">>) THEN Raise("InvalidPathError")
    ELSE LET is_absolute == startswith(text, PREFIX)
             rest == IF is_absolute THEN lstrip(text, Range(PREFIX)) ELSE text
             parts == split(lstrip(rest, {"/"}), "/")
         IN IF ~validate_parts(parts) THEN Raise("InvalidPathError")
            ELSE IF is_absolute /\ ~validate_bucket(parts[1])
                 THEN Raise("InvalidBucketError")
            ELSE Return(Path(parts, is_absolute))

\* S3Path.__init__
S3Path(text) ==
    IF startswith(text, <<"/">>) THEN Raise("InvalidPathError")
    ELSE LET is_absolute == startswith(text, PREFIX)
             rest == IF is_absolute THEN lstrip(text, Range(PREFIX)) ELSE text
             parts == split(strip(rest, {"/"}), "/")
         IN IF ~validate_parts(parts) THEN Raise("InvalidPathError")
            ELSE IF is_absolute /\ ~validate_bucket(parts[1])
                 THEN Raise("InvalidBucketError")
            ELSE Return(Path(parts, is_absolute))

\* S3Path.from_parts
from_parts(parts, is_absolute) ==
    IF ~validate_parts(parts) THEN Raise("InvalidPathError")
    ELSE IF is_absolute /\ ~validate_bucket(parts[1])
         THEN Raise("InvalidBucketError")
    ELSE S3Path((IF is_absolute THEN PREFIX ELSE <<>>) \o join("/", parts))

\* S3Path.to_absolute
to_absolute(self) ==
    IF self.is_absolute THEN Return(self)
    ELSE from_parts(self.parts, TRUE)

\* S3Path.with_bucket
with_bucket(self, bucket) ==
    LET stripped_bucket == strip(bucket, {"/"})
    IN IF ~validate_bucket(stripped_bucket) THEN Raise("InvalidBucketError")
       ELSE LET new_parts == IF self.is_absolute
                             THEN <<bucket>> \o Tail(self.parts)
                             ELSE <<stripped_bucket>> \o self.parts
            IN from_parts(new_parts, TRUE)

\* parent leaving is_absolute to from_parts' default
parent_default_flag(self) ==
    IF Len(self.parts) = 1 THEN ReturnNone
    ELSE from_parts(SubSeq(self.parts, 1, Len(self.parts) - 1), FALSE)

\* S3Path.parent
parent(self) ==
    IF Len(self.parts) = 1 THEN ReturnNone
    ELSE from_parts(SubSeq(self.parts, 1, Len(self.parts) - 1), self.is_absolute)

\* __truediv__ leaving is_absolute to from_parts' default
truediv_default_flag(self, other) ==
    LET parsed == IF other.kind = "str" THEN S3Path(lstrip(other.text, {"/"}))
                  ELSE IF other.flag THEN Raise("ValueError")
                  ELSE Return(Path(other.parts, other.flag))
    IN IF parsed.kind # "path" THEN parsed
       ELSE from_parts(self.parts \o parsed.path.parts, FALSE)

\* __truediv__ removing one leading slash of a str operand, not all of them
truediv_one_slash(self, other) ==
    LET parsed == IF other.kind = "str"
                  THEN S3Path(IF startswith(other.text, <<"/">>) THEN Tail(other.text)
                              ELSE other.text)
                  ELSE IF other.flag THEN Raise("ValueError")
                  ELSE Return(Path(other.parts, other.flag))
    IN IF parsed.kind # "path" THEN parsed
       ELSE from_parts(self.parts \o parsed.path.parts, self.is_absolute)

\* S3Path.__truediv__ ; other is a str operand or a path operand
truediv(self, other) ==
    LET parsed == IF other.kind = "str" THEN S3Path(lstrip(other.text, {"/"}))
                  ELSE IF other.flag THEN Raise("ValueError")
                  ELSE Return(Path(other.parts, other.flag))
    IN IF parsed.kind # "path" THEN parsed
       ELSE from_parts(self.parts \o parsed.path.parts, self.is_absolute)

\* __repr__ without the prefix
repr_no_prefix(self) == join("/", self.parts)

\* S3Path.__repr__
repr(self) ==
    LET relative_representation == join("/", self.parts)
    IN IF self.is_absolute THEN PREFIX \o relative_representation
       ELSE relative_representation

\* S3Path.__eq__ between two path values
eq(self, other) ==
    self.parts = other.parts /\ self.is_absolute = other.is_absolute

(***************************************************************************)
(* Inputs.                                                                 *)
(***************************************************************************)
\* the heads a text can share with the prefix: "", "s", "s3", ..., "s3://"
Heads == {SubSeq(PREFIX, 1, k) : k \in 0..Len(PREFIX)}

\* the texts given to S3Path(text)
Texts == {h \o t : h \in Heads, t \in Strs(Alphabet, MaxTail)}

\* the strings given to with_bucket
BucketArgs == Strs(Alphabet, MaxArg)

\* the characters of the string operands of /: a prefix character, the
\* separator and a letter
FragmentChars == {"3", "/", "a"}

\* the strings given as right operand of /: fragments, and shorter texts
\* behind the prefix
Fragments ==
    Strs(FragmentChars, MaxFrag) \cup {PREFIX \o t : t \in Strs(FragmentChars, MaxArg)}

\* the path values given as right operand of /
PathOperands == {S3Path(t).path : t \in {f \in Fragments : S3Path(f).kind = "path"}}

\* the parts lists given to from_parts: the empty list, and every list whose
\* characters and boundaries between parts number at most MaxArg + 1
PartLists == {<<>>} \cup {split(t, "|") : t \in Strs(Alphabet \cup {"|"}, MaxArg + 1)}

\* the strings given to _validate_bucket: short ones of any shape, and long
\* ones around the length limit
BucketNames ==
    BucketArgs
      \cup {Rep(c, n) : c \in {"a", "3"}, n \in (MaxBucketLen - 1)..(MaxBucketLen + 1)}
      \cup {Rep("a", n) \o <<c>> : c \in {"-", "3"}, n \in (MaxBucketLen - 2)..MaxBucketLen}

\* the number of characters in the parts of a path
RECURSIVE Size(_)
Size(parts) == IF parts = <<>> THEN 0 ELSE Len(Head(parts)) + Size(Tail(parts))

(***************************************************************************)
(* The state machine: a client constructs a path, calls a method on the    *)
(* path it holds, and goes on with what the call returned.                 *)
(***************************************************************************)
Init ==
    /\ path = NoPath
    /\ op = "none"
    /\ arg = ArgNone
    /\ out = "none"
    /\ result = NoPath

\* the record of a call: its name, its operand and what it returned or raised
Record(name, a, r) ==
    /\ op' = name
    /\ arg' = a
    /\ out' = r.kind
    /\ result' = r.path
    /\ UNCHANGED path

\* a client that holds no path may call a constructor
CanConstruct == op = "none" /\ path = NoPath

\* a client that holds a path may call a method on it
CanCall == op = "none" /\ path # NoPath

Parse ==
    /\ CanConstruct
    /\ \E t \in Texts : Record("S3Path", ArgStr(t), S3Path(t))

FromParts ==
    /\ CanConstruct
    /\ \E ps \in PartLists, f \in BOOLEAN :
           Record("from_parts", ArgParts(ps, f), from_parts(ps, f))

ValidateBucket ==
    /\ CanConstruct
    /\ \E b \in BucketNames :
           Record("validate_bucket", ArgStr(b),
                  IF validate_bucket(b) THEN ReturnNone
                  ELSE Raise("InvalidBucketError"))

ToAbsolute ==
    /\ CanCall
    /\ Record("to_absolute", ArgNone, to_absolute(path))

Parent ==
    /\ CanCall
    /\ Record("parent", ArgNone, parent(path))

WithBucket ==
    /\ CanCall
    /\ Size(path.parts) <= MaxRecv
    /\ \E b \in BucketArgs :
           Record("with_bucket", ArgStr(b), with_bucket(path, b))

TrueDivStr ==
    /\ CanCall
    /\ Size(path.parts) <= MaxRecv
    /\ \E other \in Fragments :
           Record("truediv", ArgStr(other), truediv(path, ArgStr(other)))

TrueDivPath ==
    /\ CanCall
    /\ Size(path.parts) <= MaxRecv
    /\ \E other \in PathOperands :
           Record("truediv", ArgPath(other), truediv(path, ArgPath(other)))

\* the client goes on: it holds the returned path, or keeps the one it held
\* when the call returned None or raised
Bind ==
    /\ op # "none"
    /\ path' = IF out = "path" THEN result ELSE path
    /\ op' = "none"
    /\ arg' = ArgNone
    /\ out' = "none"
    /\ result' = NoPath

Next ==
    \/ Parse
    \/ FromParts
    \/ ValidateBucket
    \/ ToAbsolute
    \/ Parent
    \/ WithBucket
    \/ TrueDivStr
    \/ TrueDivPath
    \/ Bind

Spec == Init /\ [][Next]_vars

(***************************************************************************)
(* The vocabulary of the claims.                                           *)
(***************************************************************************)
\* the bucket grammar as the specification words it: 1 to 63 characters, all
\* letters, digits or hyphens, not all digits, no hyphen first or last
BucketGrammar(b) ==
    /\ Len(b) >= 1
    /\ Len(b) <= MaxBucketLen
    /\ \A i \in 1..Len(b) : b[i] \in DnsChars
    /\ \E i \in 1..Len(b) : b[i] \notin Digits
    /\ b[1] # "-"
    /\ b[Len(b)] # "-"

\* a segment as the specification words it: not empty, not only whitespace,
\* without a slash
SegmentOk(seg) ==
    /\ Len(seg) >= 1
    /\ \E i \in 1..Len(seg) : seg[i] \notin Whitespace
    /\ \A i \in 1..Len(seg) : seg[i] # "/"

SegmentsOk(segs) == Len(segs) >= 1 /\ \A i \in 1..Len(segs) : SegmentOk(segs[i])

\* the invariants of a path value
PathInv(p) == SegmentsOk(p.parts) /\ (p.is_absolute => BucketGrammar(p.parts[1]))

\* the right operand of the recorded / is relative: a relative path value, or
\* a string that parses to a relative path
OperandParsed == IF arg.kind = "str" THEN S3Path(arg.text) ELSE Return(Path(arg.parts, arg.flag))
OperandRelative == OperandParsed.kind = "path" /\ ~OperandParsed.path.is_absolute
OperandAbsolute == OperandParsed.kind = "path" /\ OperandParsed.path.is_absolute

\* one-character segments to join in a row
SampleSegments == {<<c>> : c \in Alphabet \ ({"/"} \cup Whitespace)}

\* parent applied n times, as far as it returns a path
RECURSIVE Ancestor(_, _)
Ancestor(p, n) ==
    IF n = 0 THEN Return(p)
    ELSE LET r == Ancestor(p, n - 1)
         IN IF r.kind = "path" THEN parent(r.path) ELSE r

(***************************************************************************)
(* C1.  For every parts list S that passes segment validation and every    *)
(* flag a (S[0] passing the bucket grammar when a is true),                *)
(* from_parts(S, a) succeeds with parts == S and is_absolute == a.         *)
(* Stated as claimed; the code breaks it for an absolute S whose first     *)
(* part begins with a character of "s3://".                                *)
(***************************************************************************)
C1_FromPartsKeepsParts ==
    (/\ op = "from_parts"
     /\ SegmentsOk(arg.parts)
     /\ (arg.flag => BucketGrammar(arg.parts[1])))
    => (/\ out = "path"
        /\ result.parts = arg.parts
        /\ result.is_absolute = arg.flag)

(***************************************************************************)
(* C2.  to_absolute of a relative path whose first segment passes the      *)
(* bucket grammar returns an absolute path with the same segments; of an   *)
(* absolute path, the path itself; and it raises InvalidBucketError when   *)
(* the first segment fails the grammar.  Stated as claimed.                *)
(***************************************************************************)
C2_ToAbsoluteKeepsSegments ==
    op = "to_absolute" =>
        IF path.is_absolute THEN out = "path" /\ result = path
        ELSE IF BucketGrammar(path.parts[1])
             THEN out = "path" /\ result.is_absolute /\ result.parts = path.parts
        ELSE out = "InvalidBucketError"

(***************************************************************************)
(* C3.  with_bucket(b), t being b without its leading and trailing         *)
(* slashes: when t passes the bucket grammar the call returns an absolute  *)
(* path whose bucket is t, followed by the receiver's parts (relative      *)
(* receiver) or its parts after the old bucket (absolute receiver); when   *)
(* t fails the grammar it raises InvalidBucketError.  Stated as claimed.   *)
(***************************************************************************)
C3_WithBucketSetsBucket ==
    op = "with_bucket" =>
        LET t == strip(arg.text, {"/"})
        IN IF BucketGrammar(t)
           THEN /\ out = "path"
                /\ result.is_absolute
                /\ result.parts = <<t>> \o (IF path.is_absolute THEN Tail(path.parts)
                                            ELSE path.parts)
           ELSE out = "InvalidBucketError"

(***************************************************************************)
(* C4.  For every path p the client can hold and every relative operand    *)
(* (a relative path value, or a string that parses to a relative path q),  *)
(* p / operand succeeds with p's segments followed by q's and p's          *)
(* absoluteness; and (p / a) / b has p's segments followed by a and b.     *)
(***************************************************************************)
C4_JoinConcatenates ==
    /\ (op = "truediv" /\ OperandRelative)
       => (/\ out = "path"
           /\ result.parts = path.parts \o OperandParsed.path.parts
           /\ result.is_absolute = path.is_absolute)
    /\ (op = "none" /\ path # NoPath)
       => \A a \in SampleSegments, b \in SampleSegments :
              LET pa == truediv(path, ArgStr(a))
                  pab == truediv(pa.path, ArgStr(b))
              IN /\ pa.kind = "path"
                 /\ pab.kind = "path"
                 /\ pab.path.parts = path.parts \o <<a, b>>
                 /\ pab.path.is_absolute = path.is_absolute

\* a multi-segment string was joined onto an absolute path that had itself
\* more than its bucket
C4_Witness ==
    /\ op = "truediv"
    /\ arg.kind = "str"
    /\ OperandRelative
    /\ Len(OperandParsed.path.parts) = 2
    /\ path.is_absolute
    /\ Len(path.parts) = 2
    /\ out = "path"

(***************************************************************************)
(* C5.  Joining an absolute right operand fails: whether it is an absolute *)
(* path value or a string that parses to an absolute path, p / operand     *)
(* raises ValueError.  Stated as claimed; the code joins the segments of   *)
(* an absolute string operand.                                             *)
(***************************************************************************)
C5_JoinAbsoluteFails ==
    (op = "truediv" /\ OperandAbsolute) => out = "ValueError"

(***************************************************************************)
(* C6.  As claimed: for every non-empty text S3Path accepts, text + "/"    *)
(* is accepted too and parses to an equal path.                            *)
(***************************************************************************)
C6_TrailingSlashOriginal ==
    (op = "S3Path" /\ out = "path" /\ arg.text # <<>>)
    => LET slashed == S3Path(arg.text \o <<"/">>)
       IN slashed.kind = "path" /\ eq(slashed.path, result)

(***************************************************************************)
(* C6, amended.  For every non-empty accepted text other than "s3:/"       *)
(* (which a slash completes to the bare prefix "s3://"), text + "/" is     *)
(* accepted too and parses to an equal path.                               *)
(***************************************************************************)
C6_TrailingSlash ==
    (op = "S3Path" /\ out = "path" /\ arg.text # <<>> /\ arg.text \o <<"/">> # PREFIX)
    => LET slashed == S3Path(arg.text \o <<"/">>)
       IN slashed.kind = "path" /\ eq(slashed.path, result)

\* an absolute text with a key was accepted
C6_Witness ==
    /\ op = "S3Path"
    /\ out = "path"
    /\ result.is_absolute
    /\ Len(result.parts) = 2
    /\ arg.text[Len(arg.text)] # "/"

(***************************************************************************)
(* C7.  For every text S3Path accepts, the rendering of the parsed path is *)
(* accepted and parses to an equal path; the rendering starts with "s3://" *)
(* exactly when the path is absolute, and does not end with a slash.       *)
(***************************************************************************)
C7_RenderRoundTrip ==
    (op = "S3Path" /\ out = "path")
    => LET r == repr(result)
           again == S3Path(r)
       IN /\ again.kind = "path"
          /\ eq(again.path, result)
          /\ startswith(r, PREFIX) <=> result.is_absolute
          /\ r # <<>>
          /\ r[Len(r)] # "/"

\* an absolute text with a two-character bucket and a trailing slash was
\* accepted
C7_Witness ==
    /\ op = "S3Path"
    /\ out = "path"
    /\ result.is_absolute
    /\ Len(result.parts[1]) = 2
    /\ arg.text[Len(arg.text)] = "/"

(***************************************************************************)
(* C8.  parent of a one-segment path is None; of a longer path, a path of  *)
(* the same absoluteness with the last segment dropped.  Applied again and *)
(* again to an N-segment path it reaches a one-segment path after exactly  *)
(* N-1 applications and None on the N-th.                                  *)
(***************************************************************************)
C8_Parent ==
    op = "parent" =>
        LET N == Len(path.parts)
        IN /\ N = 1 => out = "None"
           /\ N > 1 => /\ out = "path"
                       /\ result.is_absolute = path.is_absolute
                       /\ result.parts = SubSeq(path.parts, 1, N - 1)
           /\ \A k \in 0..(N - 1) :
                  /\ Ancestor(path, k).kind = "path"
                  /\ Len(Ancestor(path, k).path.parts) = N - k
           /\ Ancestor(path, N).kind = "None"

\* parent was taken of an absolute path with a bucket and two more segments
C8_Witness ==
    /\ op = "parent"
    /\ out = "path"
    /\ path.is_absolute
    /\ Len(path.parts) = 3

(***************************************************************************)
(* C9.  _validate_bucket accepts a string exactly when it has 1 to 63      *)
(* characters, all letters, digits or hyphens, is not all digits and has   *)
(* no hyphen first or last; it rejects every other string with             *)
(* InvalidBucketError.  Stated as claimed; the code accepts the empty      *)
(* string.                                                                 *)
(***************************************************************************)
C9_BucketValidation ==
    op = "validate_bucket" =>
        IF BucketGrammar(arg.text) THEN out = "None" ELSE out = "InvalidBucketError"

(***************************************************************************)
(* C10.  Every path the client holds and every path a call returns has a   *)
(* non-empty segment list, no segment that is empty, only whitespace or    *)
(* holds a slash, and, when absolute, a first segment that passes the      *)
(* bucket grammar.                                                         *)
(***************************************************************************)
C10_PathInvariant ==
    /\ path # NoPath => PathInv(path)
    /\ out = "path" => PathInv(result)

\* a bucket was put before a relative path of two segments
C10_Witness ==
    /\ op = "with_bucket"
    /\ out = "path"
    /\ ~path.is_absolute
    /\ Len(result.parts) = 3

(***************************************************************************)
(* C11.  The vocabulary: the recorded / has a string operand that begins   *)
(* with a slash; Unslashed is that operand from its first character that   *)
(* is no slash.                                                            *)
(***************************************************************************)
SlashedOperand == op = "truediv" /\ arg.kind = "str" /\ startswith(arg.text, <<"/">>)

LeadingSlashes ==
    CHOOSE k \in 0..Len(arg.text) :
        /\ \A i \in 1..k : arg.text[i] = "/"
        /\ k < Len(arg.text) => arg.text[k + 1] # "/"

Unslashed == SubSeq(arg.text, LeadingSlashes + 1, Len(arg.text))

\* the outcome of joining the string t onto the held path is the recorded one
SameOutcome(t) ==
    LET r == truediv(path, ArgStr(t))
    IN r.kind = out /\ r.path = result

(***************************************************************************)
(* C11, as claimed.  One leading slash of a string operand is removed:     *)
(* p / ("/" + f) equals p / f for a valid relative fragment f, and a       *)
(* string with two or more leading slashes fails with InvalidPathError.    *)
(***************************************************************************)
C11_SingleSlashOriginal ==
    SlashedOperand =>
        IF LeadingSlashes = 1
        THEN (S3Path(Unslashed).kind = "path" /\ ~S3Path(Unslashed).path.is_absolute)
             => SameOutcome(Unslashed)
        ELSE out = "InvalidPathError"

(***************************************************************************)
(* C11, amended.  Every leading slash of a string operand is removed:      *)
(* p / ("/" + g) has the outcome of p / g for every string g, so with any  *)
(* number of leading slashes before a valid relative fragment f the join   *)
(* succeeds with p's segments followed by f's and p's absoluteness; a      *)
(* string of slashes alone fails with InvalidPathError.                    *)
(***************************************************************************)
C11_LeadingSlashes ==
    SlashedOperand =>
        /\ SameOutcome(Tail(arg.text))
        /\ (S3Path(Unslashed).kind = "path" /\ ~S3Path(Unslashed).path.is_absolute)
           => (/\ out = "path"
               /\ result.parts = path.parts \o S3Path(Unslashed).path.parts
               /\ result.is_absolute = path.is_absolute)
        /\ Unslashed = <<>> => out = "InvalidPathError"

\* a fragment behind two slashes was joined onto an absolute path
C11_Witness ==
    /\ SlashedOperand
    /\ LeadingSlashes = 2
    /\ Unslashed # <<>>
    /\ path.is_absolute
    /\ out = "path"

====
